---- MODULE Spec2Model ----
(***************************************************************************)
(* The catalog API of locallibrary/locallibrary/api.py: five resource      *)
(* kinds (Author, Genre, Language, Book, BookInstance) over a relational   *)
(* store, each with list / get / create / update / delete handlers, the    *)
(* mark_returned workflow, and the authentication set on the NinjaAPI      *)
(* object.                                                                 *)
(*                                                                         *)
(* A handler reads nothing but the store, the caller and its arguments, so *)
(* it is an operator from them to (store, status, body).  A behaviour is a *)
(* store that the handlers have built from the empty one (Stores) and one  *)
(* request served against it, for every operation, caller and payload;     *)
(* prev keeps the store the request was served against.                    *)
(***************************************************************************)
EXTENDS Integers, Sequences, FiniteSets, TLC

VARIABLES
    db,        \* the store: the tables of catalog.models and their id sequences
    prev,      \* the store the last request was served against
    request,   \* the last request: operation, caller, path id, payload
    response,  \* its response: status and body
    served     \* whether the request has been served

vars == <<db, prev, request, response, served>>

----------------------------------------------------------------------------
(* Bounds of the model.                                                    *)

\* length of a genre_ids list in a payload
MaxGenreIds == 2
\* ids a request may name: 0 .. MaxId
MaxId == 3

----------------------------------------------------------------------------
(* Values.                                                                 *)

\* Optional[int] = None
None == -1
\* Optional[str] = None, Optional[date] = None
Null == "None"

\* request.user: 0 is the anonymous user, the others are rows of User
Anonymous == 0
Users == {1, 2}
Callers == {Anonymous} \cup Users
\* the users for whom has_perm('catalog.can_mark_returned') is true
CanMarkReturned == {2}

\* the instance_id path parameter: a string that uuid.UUID() parses, in its
\* canonical form or in braces, or one it rejects
Tokens == [form : {"canonical", "braced"}, uuid : 1..MaxId] \cup
          {[form |-> "malformed", uuid |-> 0]}

\* uuid.UUID(instance_id): the value, or None for ValueError / TypeError
ParseUUID(token) == IF token.form = "malformed" THEN None ELSE token.uuid

\* UUIDSchema.resolve_uuid_string: str(uuid_obj), the canonical form
resolve_uuid_string(uuid_obj) == [form |-> "canonical", uuid |-> uuid_obj]

----------------------------------------------------------------------------
(* The store.                                                              *)

EmptyDb ==
    [ authors       |-> << >>,
      genres        |-> << >>,
      languages     |-> << >>,
      books         |-> << >>,
      bookinstances |-> << >>,
      seq |-> [ authors |-> 0, genres |-> 0, languages |-> 0, books |-> 0,
                bookinstances |-> 0 ] ]

\* table with the row at key id removed
Without(table, id) == [k \in (DOMAIN table) \ {id} |-> table[k]]

\* table with the row at key id inserted or replaced
With(table, id, row) ==
    [k \in (DOMAIN table) \cup {id} |-> IF k = id THEN row ELSE table[k]]

Result(d, status, body) == [db |-> d, status |-> status, body |-> body]

\* {"message": ...}
Message(text) == [message |-> [text |-> text]]
NotFoundWithId(kind, id) ==
    [message |-> [text |-> "with ID not found", kind |-> kind, id |-> id]]

\* the response body of a row: the row with its key
Body(id, row) == [id |-> id, row |-> row]

\* Model.objects.all()
All(table) == [items |-> {Body(k, table[k]) : k \in DOMAIN table}]

----------------------------------------------------------------------------
(* Authentication.                                                         *)

Operations ==
    { "list_authors", "get_author", "create_author", "update_author", "delete_author",
      "list_genres", "get_genre", "create_genre", "update_genre", "delete_genre",
      "list_languages", "get_language", "create_language", "update_language",
      "delete_language",
      "list_books", "get_book", "create_book", "update_book", "delete_book",
      "list_bookinstances", "get_bookinstance", "create_bookinstance",
      "update_bookinstance", "delete_bookinstance", "mark_returned" }

ReadOperations ==
    { "list_authors", "get_author", "list_genres", "get_genre", "list_languages",
      "get_language", "list_books", "get_book", "list_bookinstances",
      "get_bookinstance" }

\* api = NinjaAPI(auth=django_auth): the authentication of every operation
\* that does not set its own
api == "django_auth"

\* OperationAuth with the delete operations left open
MissingAuthOnDelete(op) ==
    IF op \in {"delete_author", "delete_genre", "delete_language", "delete_book",
               "delete_bookinstance"}
    THEN "none" ELSE "django_auth"

\* the auth of an operation's decorator: the mutating operations and
\* mark_returned pass auth=django_auth, the read operations pass nothing
\* and take the api's
OperationAuth(op) == IF op \in ReadOperations THEN api ELSE "django_auth"

\* django_auth: request.user when it is authenticated, else nothing
django_auth(caller) == IF caller # Anonymous THEN caller ELSE None

\* the framework runs the handler only when the operation's auth returns a
\* user; otherwise it answers 401 and the handler body never runs
Dispatch(op, caller, d, handled) ==
    IF OperationAuth(op) = "django_auth" /\ django_auth(caller) = None
    THEN Result(d, 401, Message("Unauthorized"))
    ELSE handled

----------------------------------------------------------------------------
(* Author.                                                                 *)

\* IfNotNone without its test
AssignAlways(value, absent, old) == value

\* `if payload.<field> is not None: obj.<field> = payload.<field>`
IfNotNone(value, absent, old) == IF value # absent THEN value ELSE old

list_authors(d) == Result(d, 200, All(d.authors))

get_author(d, author_id) ==
    IF author_id \in DOMAIN d.authors
    THEN Result(d, 200, Body(author_id, d.authors[author_id]))
    ELSE Result(d, 404, Message("Author not found"))

create_author(d, payload) ==
    LET id == d.seq.authors + 1
        author == [ first_name    |-> payload.first_name,
                    last_name     |-> payload.last_name,
                    date_of_birth |-> payload.date_of_birth,
                    date_of_death |-> payload.date_of_death ]
    IN  Result([d EXCEPT !.authors = With(@, id, author), !.seq.authors = id],
               201, Body(id, author))

update_author(d, author_id, payload) ==
    IF author_id \notin DOMAIN d.authors
    THEN Result(d, 404, Message("Author not found"))
    ELSE LET old == d.authors[author_id]
             author ==
                [ first_name    |-> IfNotNone(payload.first_name, Null, old.first_name),
                  last_name     |-> IfNotNone(payload.last_name, Null, old.last_name),
                  date_of_birth |-> IfNotNone(payload.date_of_birth, Null, old.date_of_birth),
                  date_of_death |-> IfNotNone(payload.date_of_death, Null, old.date_of_death) ]
         IN  Result([d EXCEPT !.authors = With(@, author_id, author)],
                    200, Body(author_id, author))

\* the rows of a table whose field names the key id
Referencing(table, field, id) == {k \in DOMAIN table : table[k][field] = id}

\* what deleting a row does to the rows that reference it: the policy is
\* the on_delete of the foreign key, declared in catalog.models
OnDelete == {"RESTRICT", "SET_NULL"}

SetNull(table, field, id) ==
    [k \in DOMAIN table |->
        IF table[k][field] = id THEN [table[k] EXCEPT ![field] = None] ELSE table[k]]

delete_author(d, author_id, on_delete) ==
    IF author_id \notin DOMAIN d.authors
    THEN Result(d, 404, Message("Author not found"))
    ELSE IF Referencing(d.books, "author", author_id) # {} /\ on_delete = "RESTRICT"
    THEN Result(d, 500, Message("RestrictedError"))
    ELSE Result([d EXCEPT !.authors = Without(@, author_id),
                          !.books = SetNull(@, "author", author_id)],
                204, Message(""))

----------------------------------------------------------------------------
(* Genre.                                                                  *)

list_genres(d) == Result(d, 200, All(d.genres))

get_genre(d, genre_id) ==
    IF genre_id \in DOMAIN d.genres
    THEN Result(d, 200, Body(genre_id, d.genres[genre_id]))
    ELSE Result(d, 404, Message("Genre not found"))

create_genre(d, payload) ==
    LET id == d.seq.genres + 1
        genre == [name |-> payload.name]
    IN  Result([d EXCEPT !.genres = With(@, id, genre), !.seq.genres = id],
               201, Body(id, genre))

update_genre(d, genre_id, payload) ==
    IF genre_id \notin DOMAIN d.genres
    THEN Result(d, 404, Message("Genre not found"))
    ELSE LET genre == [name |-> IfNotNone(payload.name, Null, d.genres[genre_id].name)]
         IN  Result([d EXCEPT !.genres = With(@, genre_id, genre)],
                    200, Body(genre_id, genre))

\* deleting a Genre deletes its rows of the book-genre link table
delete_genre(d, genre_id) ==
    IF genre_id \notin DOMAIN d.genres
    THEN Result(d, 404, Message("Genre not found"))
    ELSE Result([d EXCEPT !.genres = Without(@, genre_id),
                          !.books = [k \in DOMAIN d.books |->
                                        [d.books[k] EXCEPT !.genre = @ \ {genre_id}]]],
                204, Message(""))

----------------------------------------------------------------------------
(* Language.                                                               *)

list_languages(d) == Result(d, 200, All(d.languages))

get_language(d, language_id) ==
    IF language_id \in DOMAIN d.languages
    THEN Result(d, 200, Body(language_id, d.languages[language_id]))
    ELSE Result(d, 404, Message("Language not found"))

create_language(d, payload) ==
    LET id == d.seq.languages + 1
        language == [name |-> payload.name]
    IN  Result([d EXCEPT !.languages = With(@, id, language), !.seq.languages = id],
               201, Body(id, language))

update_language(d, language_id, payload) ==
    IF language_id \notin DOMAIN d.languages
    THEN Result(d, 404, Message("Language not found"))
    ELSE LET language ==
                [name |-> IfNotNone(payload.name, Null, d.languages[language_id].name)]
         IN  Result([d EXCEPT !.languages = With(@, language_id, language)],
                    200, Body(language_id, language))

delete_language(d, language_id, on_delete) ==
    IF language_id \notin DOMAIN d.languages
    THEN Result(d, 404, Message("Language not found"))
    ELSE IF Referencing(d.books, "language", language_id) # {} /\ on_delete = "RESTRICT"
    THEN Result(d, 500, Message("RestrictedError"))
    ELSE Result([d EXCEPT !.languages = Without(@, language_id),
                          !.books = SetNull(@, "language", language_id)],
                204, Message(""))

----------------------------------------------------------------------------
(* Book.                                                                   *)

\* `if payload.<id>:` an int is true unless it is None or 0
Truthy(value) == value # None /\ value # 0

\* genre_ids: Optional[List[int]] = None, the absent list
NoList == <<None>>

list_books(d) == Result(d, 200, All(d.books))

get_book(d, book_id) ==
    IF book_id \in DOMAIN d.books
    THEN Result(d, 200, Body(book_id, d.books[book_id]))
    ELSE Result(d, 404, Message("Book not found"))

\* for genre_id in genre_ids: book.genre.add(Genre.objects.get(id=genre_id)),
\* from position i on; each add is written to the store at once.  The
\* result is the store and the first id that did not resolve (None if all did).
RECURSIVE AddGenres(_, _, _, _)
AddGenres(d, book_id, genre_ids, i) ==
    IF i > Len(genre_ids)
    THEN [db |-> d, missing |-> None]
    ELSE IF genre_ids[i] \notin DOMAIN d.genres
    THEN [db |-> d, missing |-> genre_ids[i]]
    ELSE AddGenres([d EXCEPT !.books[book_id].genre = @ \cup {genre_ids[i]}],
                   book_id, genre_ids, i + 1)

create_book(d, payload) ==
    IF Truthy(payload.author_id) /\ payload.author_id \notin DOMAIN d.authors
    THEN Result(d, 400, NotFoundWithId("Author", payload.author_id))
    ELSE IF Truthy(payload.language_id) /\ payload.language_id \notin DOMAIN d.languages
    THEN Result(d, 400, NotFoundWithId("Language", payload.language_id))
    ELSE
    LET id == d.seq.books + 1
        book == [ title    |-> payload.title,
                  summary  |-> payload.summary,
                  isbn     |-> payload.isbn,
                  author   |-> IF Truthy(payload.author_id)
                               THEN payload.author_id ELSE None,
                  language |-> IF Truthy(payload.language_id)
                               THEN payload.language_id ELSE None,
                  genre    |-> {} ]
        \* book.save()
        saved == [d EXCEPT !.books = With(@, id, book), !.seq.books = id]
        added == AddGenres(saved, id, payload.genre_ids, 1)
    IN  IF added.missing # None
        THEN Result(added.db, 400, NotFoundWithId("Genre", added.missing))
        ELSE Result(added.db, 201, Body(id, added.db.books[id]))

\* ClearGenres that clears nothing
KeepGenres(d, book_id) == d

\* book.genre.clear(), written to the store at once
ClearGenres(d, book_id) == [d EXCEPT !.books[book_id].genre = {}]

update_book(d, book_id, payload) ==
    IF book_id \notin DOMAIN d.books
    THEN Result(d, 404, Message("Book not found"))
    ELSE IF payload.author_id # None /\ payload.author_id \notin DOMAIN d.authors
    THEN Result(d, 400, NotFoundWithId("Author", payload.author_id))
    ELSE IF payload.language_id # None /\ payload.language_id \notin DOMAIN d.languages
    THEN Result(d, 400, NotFoundWithId("Language", payload.language_id))
    ELSE
    LET old == d.books[book_id]
        book == [ title    |-> IfNotNone(payload.title, Null, old.title),
                  summary  |-> IfNotNone(payload.summary, Null, old.summary),
                  isbn     |-> IfNotNone(payload.isbn, Null, old.isbn),
                  author   |-> IfNotNone(payload.author_id, None, old.author),
                  language |-> IfNotNone(payload.language_id, None, old.language),
                  genre    |-> old.genre ]
        \* book.save()
        saved == [d EXCEPT !.books = With(@, book_id, book)]
        cleared == ClearGenres(saved, book_id)
        added == AddGenres(cleared, book_id, payload.genre_ids, 1)
    IN  IF payload.genre_ids = NoList
        THEN Result(saved, 200, Body(book_id, book))
        ELSE IF added.missing # None
        THEN Result(added.db, 400, NotFoundWithId("Genre", added.missing))
        ELSE Result(added.db, 200, Body(book_id, added.db.books[book_id]))

\* the BookInstance rows of a deleted Book go with it under CASCADE
delete_book(d, book_id, on_delete) ==
    IF book_id \notin DOMAIN d.books
    THEN Result(d, 404, Message("Book not found"))
    ELSE IF Referencing(d.bookinstances, "book", book_id) # {} /\ on_delete = "RESTRICT"
    THEN Result(d, 500, Message("RestrictedError"))
    ELSE Result([d EXCEPT !.books = Without(@, book_id),
                          !.bookinstances =
                              [k \in (DOMAIN d.bookinstances)
                                       \ Referencing(d.bookinstances, "book", book_id)
                                  |-> d.bookinstances[k]]],
                204, Message(""))

----------------------------------------------------------------------------
(* BookInstance.                                                           *)

list_bookinstances(d) == Result(d, 200, All(d.bookinstances))

get_bookinstance(d, instance_id) ==
    LET instance_uuid == ParseUUID(instance_id)
    IN  IF instance_uuid = None
        THEN Result(d, 404, Message("Invalid UUID format"))
        ELSE IF instance_uuid \notin DOMAIN d.bookinstances
        THEN Result(d, 404, Message("Book instance not found"))
        ELSE Result(d, 200, Body(resolve_uuid_string(instance_uuid),
                                 d.bookinstances[instance_uuid]))

create_bookinstance(d, payload) ==
    IF payload.book_id \notin DOMAIN d.books
    THEN Result(d, 400, NotFoundWithId("Book", payload.book_id))
    ELSE IF Truthy(payload.borrower_id) /\ payload.borrower_id \notin Users
    THEN Result(d, 400, NotFoundWithId("User", payload.borrower_id))
    ELSE
    LET \* the id field's default: a token no instance has had
        id == d.seq.bookinstances + 1
        bookinstance == [ book     |-> payload.book_id,
                          imprint  |-> payload.imprint,
                          due_back |-> payload.due_back,
                          status   |-> payload.status,
                          borrower |-> IF Truthy(payload.borrower_id)
                                       THEN payload.borrower_id ELSE None ]
    IN  Result([d EXCEPT !.bookinstances = With(@, id, bookinstance),
                         !.seq.bookinstances = id],
               201, Body(resolve_uuid_string(id), bookinstance))

\* UpdatedBorrower with the test of create_bookinstance, `if payload.borrower_id:`
UpdatedBorrowerIfTruthy(borrower_id, old) ==
    IF Truthy(borrower_id) THEN borrower_id ELSE old

\* `if payload.borrower_id is not None:` 0 removes the borrower, another id
\* is the borrower's
UpdatedBorrower(borrower_id, old) ==
    IF borrower_id = None THEN old
    ELSE IF borrower_id = 0 THEN None
    ELSE borrower_id

\* update_bookinstance once the instance is found
UpdateFound(d, instance_uuid, payload) ==
    IF payload.book_id # None /\ payload.book_id \notin DOMAIN d.books
    THEN Result(d, 400, NotFoundWithId("Book", payload.book_id))
    ELSE IF payload.borrower_id # None /\ payload.borrower_id # 0
            /\ payload.borrower_id \notin Users
    THEN Result(d, 400, NotFoundWithId("User", payload.borrower_id))
    ELSE
    LET old == d.bookinstances[instance_uuid]
        bookinstance ==
            [ book     |-> IfNotNone(payload.book_id, None, old.book),
              imprint  |-> IfNotNone(payload.imprint, Null, old.imprint),
              due_back |-> IfNotNone(payload.due_back, Null, old.due_back),
              status   |-> IfNotNone(payload.status, Null, old.status),
              borrower |-> UpdatedBorrower(payload.borrower_id, old.borrower) ]
    IN  Result([d EXCEPT !.bookinstances = With(@, instance_uuid, bookinstance)],
               200, Body(resolve_uuid_string(instance_uuid), bookinstance))

\* update_bookinstance without the inner try blocks: the ValueError and the
\* DoesNotExist reach `except Exception`
UpdateWithoutInnerTry(d, instance_id, payload) ==
    LET instance_uuid == ParseUUID(instance_id)
    IN  IF instance_uuid = None
        THEN Result(d, 400, Message("badly formed hexadecimal UUID string"))
        ELSE IF instance_uuid \notin DOMAIN d.bookinstances
        THEN Result(d, 400, Message("BookInstance matching query does not exist."))
        ELSE UpdateFound(d, instance_uuid, payload)

update_bookinstance(d, instance_id, payload) ==
    LET instance_uuid == ParseUUID(instance_id)
    IN  IF instance_uuid = None
        THEN Result(d, 404, Message("Invalid UUID format"))
        ELSE IF instance_uuid \notin DOMAIN d.bookinstances
        THEN Result(d, 404, Message("Book instance not found"))
        ELSE UpdateFound(d, instance_uuid, payload)

delete_bookinstance(d, instance_id) ==
    LET instance_uuid == ParseUUID(instance_id)
    IN  IF instance_uuid = None
        THEN Result(d, 404, Message("Invalid UUID format"))
        ELSE IF instance_uuid \notin DOMAIN d.bookinstances
        THEN Result(d, 404, Message("Book instance not found"))
        ELSE Result([d EXCEPT !.bookinstances = Without(@, instance_uuid)],
                    204, Message(""))

\* has_perm that is true of every authenticated user
HasPermIfAuthenticated(caller) == caller # Anonymous

\* request.user.has_perm('catalog.can_mark_returned')
has_perm(caller) == caller \in CanMarkReturned

\* mark_returned that leaves due_back as it was
MarkReturnedKeepingDueBack(d, caller, instance_id) ==
    LET instance_uuid == ParseUUID(instance_id)
    IN  IF ~ has_perm(caller)
        THEN Result(d, 403, Message("You don't have permission to mark books as returned"))
        ELSE IF instance_uuid = None
        THEN Result(d, 404, Message("Invalid UUID format"))
        ELSE IF instance_uuid \notin DOMAIN d.bookinstances
        THEN Result(d, 404, Message("Book instance not found"))
        ELSE
        LET bookinstance == [d.bookinstances[instance_uuid] EXCEPT
                                !.status = "a", !.borrower = None]
        IN  Result([d EXCEPT !.bookinstances = With(@, instance_uuid, bookinstance)],
                   200, Body(resolve_uuid_string(instance_uuid), bookinstance))

mark_returned(d, caller, instance_id) ==
    LET instance_uuid == ParseUUID(instance_id)
    IN  IF ~ has_perm(caller)
        THEN Result(d, 403, Message("You don't have permission to mark books as returned"))
        ELSE IF instance_uuid = None
        THEN Result(d, 404, Message("Invalid UUID format"))
        ELSE IF instance_uuid \notin DOMAIN d.bookinstances
        THEN Result(d, 404, Message("Book instance not found"))
        ELSE
        LET bookinstance == [d.bookinstances[instance_uuid] EXCEPT
                                !.status = "a", !.due_back = Null, !.borrower = None]
        IN  Result([d EXCEPT !.bookinstances = With(@, instance_uuid, bookinstance)],
                   200, Body(resolve_uuid_string(instance_uuid), bookinstance))

----------------------------------------------------------------------------
(* Requests.                                                               *)

\* the values a create payload gives a string or date field, and the ones an
\* update payload gives it (Null: the field is absent from the payload)
NewStr == {"x"}
NewDate == {Null, "d1"}
PatchStr == {Null, "y"}
PatchDate == {Null, "d2"}
\* status: 'a' available (the create schema's default), 'o' on loan,
\* 'm' maintenance
NewStatus == {"a", "o"}
PatchStatus == {Null, "m"}

\* an id in a path or a foreign-key field: 0, an early id, the largest
PathIds == {1, 2, MaxId}
FkIds == {0, 1, MaxId}

\* the lists of at most n ids
RECURSIVE Lists(_, _)
Lists(ids, n) ==
    IF n = 0 THEN {<< >>}
    ELSE Lists(ids, n - 1) \cup
         {Append(l, g) : l \in {m \in Lists(ids, n - 1) : Len(m) = n - 1}, g \in ids}

GenreIdLists == Lists(PathIds, MaxGenreIds)

AuthorCreatePayloads ==
    [first_name : NewStr, last_name : NewStr,
     date_of_birth : NewDate, date_of_death : NewDate]
AuthorUpdatePayloads ==
    [first_name : PatchStr, last_name : PatchStr,
     date_of_birth : PatchDate, date_of_death : PatchDate]
GenreCreatePayloads == [name : NewStr]
GenreUpdatePayloads == [name : PatchStr]
LanguageCreatePayloads == [name : NewStr]
LanguageUpdatePayloads == [name : PatchStr]
BookCreatePayloads ==
    [title : NewStr, summary : NewStr, isbn : NewStr,
     author_id : {None} \cup FkIds, language_id : {None} \cup FkIds,
     genre_ids : GenreIdLists]
BookUpdatePayloads ==
    [title : PatchStr, summary : PatchStr, isbn : PatchStr,
     author_id : {None} \cup FkIds, language_id : {None} \cup FkIds,
     genre_ids : {NoList} \cup GenreIdLists]
BookInstanceCreatePayloads ==
    [book_id : FkIds, imprint : NewStr, due_back : NewDate,
     borrower_id : {None} \cup FkIds, status : NewStatus]
BookInstanceUpdatePayloads ==
    [book_id : {None} \cup FkIds, imprint : PatchStr, due_back : PatchDate,
     borrower_id : {None} \cup FkIds, status : PatchStatus]

----------------------------------------------------------------------------
(* The state machine.                                                      *)

NoRequest == [op |-> "none", caller |-> Anonymous]
NoResponse == [status |-> 0, body |-> Message("")]

\* a store the handlers build from the empty one
Populated(status, due_back, borrower_id) ==
    LET d1 == create_author(EmptyDb,
                [first_name |-> "x", last_name |-> "x",
                 date_of_birth |-> "d1", date_of_death |-> Null]).db
        d2 == create_genre(create_genre(d1, [name |-> "x"]).db, [name |-> "x"]).db
        d3 == create_language(d2, [name |-> "x"]).db
        d4 == create_book(d3,
                [title |-> "x", summary |-> "x", isbn |-> "x", author_id |-> 1,
                 language_id |-> 1, genre_ids |-> <<1>>]).db
        d5 == create_book(d4,
                [title |-> "x", summary |-> "x", isbn |-> "x", author_id |-> None,
                 language_id |-> None, genre_ids |-> <<1, 2>>]).db
        d6 == create_bookinstance(d5,
                [book_id |-> 1, imprint |-> "x", due_back |-> due_back,
                 borrower_id |-> borrower_id, status |-> status]).db
    IN  create_bookinstance(d6,
                [book_id |-> 2, imprint |-> "x", due_back |-> "d1",
                 borrower_id |-> 1, status |-> "o"]).db

\* the populated store after an update of each of its rows
Patched(d) ==
    LET d1 == update_author(d, 1,
                [first_name |-> "y", last_name |-> Null,
                 date_of_birth |-> Null, date_of_death |-> "d2"]).db
        d2 == update_genre(d1, 2, [name |-> "y"]).db
        d3 == update_language(d2, 1, [name |-> "y"]).db
        d4 == update_book(d3, 1,
                [title |-> "y", summary |-> Null, isbn |-> "y", author_id |-> None,
                 language_id |-> None, genre_ids |-> << >>]).db
        d5 == update_bookinstance(d4, resolve_uuid_string(2),
                [book_id |-> 1, imprint |-> "y", due_back |-> "d2",
                 borrower_id |-> 0, status |-> "m"]).db
    IN  delete_author(d5, 1, "SET_NULL").db

Stores ==
    LET populated ==
            {Populated(status, due_back, borrower_id) :
                status \in NewStatus, due_back \in NewDate, borrower_id \in {None, 2}}
    IN  {EmptyDb} \cup populated \cup {Patched(d) : d \in populated}

Init ==
    /\ db \in Stores
    /\ prev = db
    /\ request = NoRequest
    /\ response = NoResponse
    /\ served = FALSE

\* one request against the store: the framework authenticates it and runs
\* the handler.  A behaviour is a store the handlers have built and one
\* request served against it.
Serve(req, handled) ==
    /\ LET res == Dispatch(req.op, req.caller, db, handled)
       IN  /\ db' = res.db
           /\ response' = [status |-> res.status, body |-> res.body]
    /\ prev' = db
    /\ request' = req
    /\ served' = TRUE

Req(op, caller) == [op |-> op, caller |-> caller]
ReqId(op, caller, id) == [op |-> op, caller |-> caller, id |-> id]
ReqPayload(op, caller, payload) == [op |-> op, caller |-> caller, payload |-> payload]
ReqIdPayload(op, caller, id, payload) ==
    [op |-> op, caller |-> caller, id |-> id, payload |-> payload]

ListAuthors ==
    /\ ~ served
    /\ \E caller \in Callers :
          Serve(Req("list_authors", caller), list_authors(db))

GetAuthor ==
    /\ ~ served
    /\ \E caller \in Callers, id \in PathIds :
          Serve(ReqId("get_author", caller, id), get_author(db, id))

CreateAuthor ==
    /\ ~ served
    /\ \E caller \in Callers, payload \in AuthorCreatePayloads :
          Serve(ReqPayload("create_author", caller, payload),
                create_author(db, payload))

UpdateAuthor ==
    /\ ~ served
    /\ \E caller \in Callers, id \in PathIds, payload \in AuthorUpdatePayloads :
          Serve(ReqIdPayload("update_author", caller, id, payload),
                update_author(db, id, payload))

DeleteAuthor ==
    /\ ~ served
    /\ \E caller \in Callers, id \in PathIds, on_delete \in OnDelete :
          Serve(ReqId("delete_author", caller, id),
                delete_author(db, id, on_delete))

ListGenres ==
    /\ ~ served
    /\ \E caller \in Callers :
          Serve(Req("list_genres", caller), list_genres(db))

GetGenre ==
    /\ ~ served
    /\ \E caller \in Callers, id \in PathIds :
          Serve(ReqId("get_genre", caller, id), get_genre(db, id))

CreateGenre ==
    /\ ~ served
    /\ \E caller \in Callers, payload \in GenreCreatePayloads :
          Serve(ReqPayload("create_genre", caller, payload),
                create_genre(db, payload))

UpdateGenre ==
    /\ ~ served
    /\ \E caller \in Callers, id \in PathIds, payload \in GenreUpdatePayloads :
          Serve(ReqIdPayload("update_genre", caller, id, payload),
                update_genre(db, id, payload))

DeleteGenre ==
    /\ ~ served
    /\ \E caller \in Callers, id \in PathIds :
          Serve(ReqId("delete_genre", caller, id), delete_genre(db, id))

ListLanguages ==
    /\ ~ served
    /\ \E caller \in Callers :
          Serve(Req("list_languages", caller), list_languages(db))

GetLanguage ==
    /\ ~ served
    /\ \E caller \in Callers, id \in PathIds :
          Serve(ReqId("get_language", caller, id), get_language(db, id))

CreateLanguage ==
    /\ ~ served
    /\ \E caller \in Callers, payload \in LanguageCreatePayloads :
          Serve(ReqPayload("create_language", caller, payload),
                create_language(db, payload))

UpdateLanguage ==
    /\ ~ served
    /\ \E caller \in Callers, id \in PathIds, payload \in LanguageUpdatePayloads :
          Serve(ReqIdPayload("update_language", caller, id, payload),
                update_language(db, id, payload))

DeleteLanguage ==
    /\ ~ served
    /\ \E caller \in Callers, id \in PathIds, on_delete \in OnDelete :
          Serve(ReqId("delete_language", caller, id),
                delete_language(db, id, on_delete))

ListBooks ==
    /\ ~ served
    /\ \E caller \in Callers :
          Serve(Req("list_books", caller), list_books(db))

GetBook ==
    /\ ~ served
    /\ \E caller \in Callers, id \in PathIds :
          Serve(ReqId("get_book", caller, id), get_book(db, id))

CreateBook ==
    /\ ~ served
    /\ \E caller \in Callers, payload \in BookCreatePayloads :
          Serve(ReqPayload("create_book", caller, payload),
                create_book(db, payload))

UpdateBook ==
    /\ ~ served
    /\ \E caller \in Callers, id \in PathIds, payload \in BookUpdatePayloads :
          Serve(ReqIdPayload("update_book", caller, id, payload),
                update_book(db, id, payload))

DeleteBook ==
    /\ ~ served
    /\ \E caller \in Callers, id \in PathIds, on_delete \in {"RESTRICT", "CASCADE"} :
          Serve(ReqId("delete_book", caller, id),
                delete_book(db, id, on_delete))

ListBookInstances ==
    /\ ~ served
    /\ \E caller \in Callers :
          Serve(Req("list_bookinstances", caller), list_bookinstances(db))

GetBookInstance ==
    /\ ~ served
    /\ \E caller \in Callers, id \in Tokens :
          Serve(ReqId("get_bookinstance", caller, id), get_bookinstance(db, id))

CreateBookInstance ==
    /\ ~ served
    /\ \E caller \in Callers, payload \in BookInstanceCreatePayloads :
          Serve(ReqPayload("create_bookinstance", caller, payload),
                create_bookinstance(db, payload))

UpdateBookInstance ==
    /\ ~ served
    /\ \E caller \in Callers, id \in Tokens, payload \in BookInstanceUpdatePayloads :
          Serve(ReqIdPayload("update_bookinstance", caller, id, payload),
                update_bookinstance(db, id, payload))

DeleteBookInstance ==
    /\ ~ served
    /\ \E caller \in Callers, id \in Tokens :
          Serve(ReqId("delete_bookinstance", caller, id), delete_bookinstance(db, id))

MarkReturned ==
    /\ ~ served
    /\ \E caller \in Callers, id \in Tokens :
          Serve(ReqId("mark_returned", caller, id),
                mark_returned(db, caller, id))

Next ==
    \/ ListAuthors \/ GetAuthor \/ CreateAuthor \/ UpdateAuthor \/ DeleteAuthor
    \/ ListGenres \/ GetGenre \/ CreateGenre \/ UpdateGenre \/ DeleteGenre
    \/ ListLanguages \/ GetLanguage \/ CreateLanguage \/ UpdateLanguage
    \/ DeleteLanguage
    \/ ListBooks \/ GetBook \/ CreateBook \/ UpdateBook \/ DeleteBook
    \/ ListBookInstances \/ GetBookInstance \/ CreateBookInstance
    \/ UpdateBookInstance \/ DeleteBookInstance \/ MarkReturned

Spec == Init /\ [][Next]_vars

----------------------------------------------------------------------------
(* Properties.  prev is the store the request was served against, db the   *)
(* store after it.                                                         *)

Authenticated == request.caller # Anonymous

Tables == {"authors", "genres", "languages", "books", "bookinstances"}

\* nothing but the row at key id of the table has changed
OnlyRowChanged(table, id) ==
    /\ \A t \in Tables \ {table} : db[t] = prev[t]
    /\ db.seq = prev.seq
    /\ DOMAIN db[table] = DOMAIN prev[table]
    /\ \A k \in (DOMAIN db[table]) \ {id} : db[table][k] = prev[table][k]

\* the ids of a genre_ids list
IdsOf(genre_ids) == {genre_ids[i] : i \in DOMAIN genre_ids}

\* C1: create_book with a genre_ids list holding an id of no Genre answers
\* 400 and leaves the Book rows and the book-genre links as they were.
C1_CreateBookUnknownGenreAtomic ==
    ( /\ request.op = "create_book"
      /\ Authenticated
      /\ \E g \in IdsOf(request.payload.genre_ids) : g \notin DOMAIN prev.genres )
    => /\ response.status = 400
       /\ db.books = prev.books

\* C2: an unauthenticated POST, PUT or DELETE of any resource kind answers
\* 401 and leaves the store as it was.
C2_UnauthenticatedMutationRejected ==
    (request.op \in Operations \ ReadOperations /\ ~ Authenticated)
    => /\ response.status = 401
       /\ db = prev

C2_Witness ==
    /\ request.op = "delete_book"
    /\ ~ Authenticated
    /\ request.id \in DOMAIN prev.books
    /\ response.status = 401

\* C3: mark_returned by a caller with can_mark_returned on an existing
\* instance leaves it available with no due_back and no borrower, changes
\* nothing else, and a second call answers 200 and leaves the same store.
C3_MarkReturned ==
    ( /\ request.op = "mark_returned"
      /\ request.caller \in CanMarkReturned
      /\ ParseUUID(request.id) \in DOMAIN prev.bookinstances )
    => LET u == ParseUUID(request.id)
           again == Dispatch("mark_returned", request.caller, db,
                             mark_returned(db, request.caller, request.id))
       IN  /\ response.status = 200
           /\ db.bookinstances[u].status = "a"
           /\ db.bookinstances[u].due_back = Null
           /\ db.bookinstances[u].borrower = None
           /\ db.bookinstances[u].book = prev.bookinstances[u].book
           /\ db.bookinstances[u].imprint = prev.bookinstances[u].imprint
           /\ OnlyRowChanged("bookinstances", u)
           /\ again.status = 200
           /\ again.db = db

C3_Witness ==
    /\ request.op = "mark_returned"
    /\ response.status = 200
    /\ prev.bookinstances[ParseUUID(request.id)].status = "o"
    /\ prev.bookinstances[ParseUUID(request.id)].due_back # Null
    /\ prev.bookinstances[ParseUUID(request.id)].borrower # None
    /\ db # prev

\* C4: mark_returned by an authenticated caller without can_mark_returned
\* answers 403 and changes no instance, whatever the identifier.
C4_MarkReturnedForbidden ==
    ( /\ request.op = "mark_returned"
      /\ Authenticated
      /\ request.caller \notin CanMarkReturned )
    => /\ response.status = 403
       /\ db.bookinstances = prev.bookinstances

C4_Witness ==
    /\ request.op = "mark_returned"
    /\ Authenticated
    /\ request.caller \notin CanMarkReturned
    /\ ParseUUID(request.id) \in DOMAIN prev.bookinstances
    /\ prev.bookinstances[ParseUUID(request.id)].status = "o"
    /\ response.status = 403

\* the fields of a row that an update payload leaves out keep their values
AbsentKept(table, id, strFields, idFields) ==
    /\ \A f \in strFields :
          request.payload[f] = Null => db[table][id][f] = prev[table][id][f]
    /\ \A f \in DOMAIN idFields :
          request.payload[f] = None
              => db[table][id][idFields[f]] = prev[table][id][idFields[f]]

\* C5: a successful update changes only fields its payload holds: each
\* field the payload leaves out keeps its value, and no other row changes.
C5_PartialUpdateFrame ==
    response.status = 200 =>
    /\ request.op = "update_author" =>
          /\ AbsentKept("authors", request.id,
                {"first_name", "last_name", "date_of_birth", "date_of_death"}, << >>)
          /\ OnlyRowChanged("authors", request.id)
    /\ request.op = "update_genre" =>
          /\ AbsentKept("genres", request.id, {"name"}, << >>)
          /\ OnlyRowChanged("genres", request.id)
    /\ request.op = "update_language" =>
          /\ AbsentKept("languages", request.id, {"name"}, << >>)
          /\ OnlyRowChanged("languages", request.id)
    /\ request.op = "update_book" =>
          /\ AbsentKept("books", request.id, {"title", "summary", "isbn"},
                [author_id |-> "author", language_id |-> "language"])
          /\ request.payload.genre_ids = NoList
                => db.books[request.id].genre = prev.books[request.id].genre
          /\ OnlyRowChanged("books", request.id)
    /\ request.op = "update_bookinstance" =>
          /\ AbsentKept("bookinstances", ParseUUID(request.id),
                {"imprint", "due_back", "status"},
                [book_id |-> "book", borrower_id |-> "borrower"])
          /\ OnlyRowChanged("bookinstances", ParseUUID(request.id))

C5_Witness ==
    /\ request.op = "update_book"
    /\ response.status = 200
    /\ request.payload.title # Null
    /\ request.payload.summary = Null
    /\ request.payload.author_id = None
    /\ db.books[request.id].title # prev.books[request.id].title
    /\ prev.books[request.id].author # None
    /\ DOMAIN prev.books # {request.id}

\* the related ids of an update_book payload all resolve
BookUpdateResolves ==
    /\ request.id \in DOMAIN prev.books
    /\ request.payload.author_id # None
          => request.payload.author_id \in DOMAIN prev.authors
    /\ request.payload.language_id # None
          => request.payload.language_id \in DOMAIN prev.languages
    /\ request.payload.genre_ids # NoList
          => IdsOf(request.payload.genre_ids) \subseteq DOMAIN prev.genres

\* C6: update_book with genre_ids in the payload, every id resolving, leaves
\* the book with exactly the ids of the list as its genres; without
\* genre_ids it leaves the genres as they were.
C6_UpdateBookGenresReplaced ==
    (request.op = "update_book" /\ Authenticated /\ BookUpdateResolves)
    => /\ response.status = 200
       /\ db.books[request.id].genre =
             IF request.payload.genre_ids = NoList
             THEN prev.books[request.id].genre
             ELSE IdsOf(request.payload.genre_ids)

C6_Witness ==
    /\ request.op = "update_book"
    /\ response.status = 200
    /\ request.payload.genre_ids = <<2, 2>>
    /\ prev.books[request.id].genre = {1}
    /\ db.books[request.id].genre = {2}

\* the related ids of an update_bookinstance payload all resolve
BookInstanceUpdateResolves ==
    /\ ParseUUID(request.id) \in DOMAIN prev.bookinstances
    /\ request.payload.book_id # None => request.payload.book_id \in DOMAIN prev.books
    /\ request.payload.borrower_id \in {None, 0} \cup Users

\* C7: update_bookinstance with borrower_id 0 removes the borrower, without
\* borrower_id keeps it, with the id of a User sets it; the fields the
\* payload leaves out keep their values.
C7_UpdateBorrowerThreeWay ==
    (request.op = "update_bookinstance" /\ Authenticated /\ BookInstanceUpdateResolves)
    => LET u == ParseUUID(request.id)
           borrower_id == request.payload.borrower_id
       IN  /\ response.status = 200
           /\ borrower_id = 0 => db.bookinstances[u].borrower = None
           /\ borrower_id = None
                 => db.bookinstances[u].borrower = prev.bookinstances[u].borrower
           /\ borrower_id \in Users => db.bookinstances[u].borrower = borrower_id
           /\ AbsentKept("bookinstances", u, {"imprint", "due_back", "status"},
                         [book_id |-> "book"])

C7_Witness ==
    /\ request.op = "update_bookinstance"
    /\ response.status = 200
    /\ request.payload.borrower_id = 0
    /\ request.payload.imprint = Null
    /\ prev.bookinstances[ParseUUID(request.id)].borrower # None
    /\ db.bookinstances[ParseUUID(request.id)].borrower = None

\* the related ids of a create payload that are not null and resolve to
\* no row, each with its kind
Unresolved ==
    LET p == request.payload
    IN  IF request.op = "create_book"
        THEN {<<"Author", p.author_id>> :
                 x \in {y \in {p.author_id} : y # None /\ y \notin DOMAIN prev.authors}}
             \cup
             {<<"Language", p.language_id>> :
                 x \in {y \in {p.language_id} :
                          y # None /\ y \notin DOMAIN prev.languages}}
        ELSE {<<"Book", p.book_id>> :
                 x \in {y \in {p.book_id} : y \notin DOMAIN prev.books}}
             \cup
             {<<"User", p.borrower_id>> :
                 x \in {y \in {p.borrower_id} : y # None /\ y \notin Users}}

\* C8: create_book and create_bookinstance with a related id that is not
\* null and resolves to no row, whatever its value, answer 400 naming the
\* id and its kind, and create nothing.
C8_CreateUnresolvedIdRejected ==
    ( /\ request.op \in {"create_book", "create_bookinstance"}
      /\ Authenticated
      /\ Unresolved # {} )
    => /\ response.status = 400
       /\ \E u \in Unresolved : response.body = NotFoundWithId(u[1], u[2])
       /\ db = prev

\* C9 as stated: an authenticated PUT /bookinstances/{uuid} whose token is
\* malformed or names no instance answers 400 and leaves the store.
C9_UpdateMissingInstanceIs400 ==
    ( /\ request.op = "update_bookinstance"
      /\ Authenticated
      /\ ParseUUID(request.id) \notin DOMAIN prev.bookinstances )
    => /\ response.status = 400
       /\ db = prev

\* C9 amended: an authenticated PUT /bookinstances/{uuid} whose token is
\* malformed or names no instance answers 404 and leaves the store.
C9_UpdateMissingInstanceIs404 ==
    ( /\ request.op = "update_bookinstance"
      /\ Authenticated
      /\ ParseUUID(request.id) \notin DOMAIN prev.bookinstances )
    => /\ response.status = 404
       /\ db = prev

C9_Witness ==
    /\ request.op = "update_bookinstance"
    /\ Authenticated
    /\ request.id.form = "malformed"
    /\ request.payload.status # Null
    /\ prev.bookinstances # << >>
    /\ response.status = 404

\* C10: an unauthenticated read is never answered 401: a get of an
\* existing row answers 200 with the row, a get of an unknown id 404.
C10_ReadsNeedNoAuthentication ==
    (request.op \in ReadOperations /\ ~ Authenticated)
    => /\ response.status # 401
       /\ request.op = "get_author" =>
             IF request.id \in DOMAIN prev.authors
             THEN /\ response.status = 200
                  /\ response.body = Body(request.id, prev.authors[request.id])
             ELSE response.status = 404
       /\ request.op = "get_book" =>
             IF request.id \in DOMAIN prev.books
             THEN /\ response.status = 200
                  /\ response.body = Body(request.id, prev.books[request.id])
             ELSE response.status = 404

\* C11: an update_book or update_bookinstance that answers 404 or 400
\* leaves the target row as it was: its scalar fields, its foreign keys and
\* its genre set.
C11_FailedUpdateAppliesNothing ==
    (Authenticated /\ response.status \in {400, 404})
    => /\ (request.op = "update_book" /\ request.id \in DOMAIN prev.books)
             => /\ request.id \in DOMAIN db.books
                /\ db.books[request.id] = prev.books[request.id]
       /\ ( /\ request.op = "update_bookinstance"
            /\ ParseUUID(request.id) \in DOMAIN prev.bookinstances )
             => /\ ParseUUID(request.id) \in DOMAIN db.bookinstances
                /\ db.bookinstances[ParseUUID(request.id)]
                      = prev.bookinstances[ParseUUID(request.id)]

====
